---- MODULE Spec2Model ----
(***************************************************************************)
(* NSFrozenLakeEnv (dyna_gym/envs/ns_frozen_lake.py): a frozen-lake grid   *)
(* whose transition kernel T[p, a, t, :] drifts with time.                 *)
(*                                                                         *)
(* Numbers.  A probability is an integer number of units, one unit being   *)
(* 1/Units for a kernel row and 1/den for any other vector.  A draw of     *)
(* np_random.rand(), a real u in [0,1), is the integer j such that         *)
(* j/den <= u < (j+1)/den: a cumulative sum c (an integer number of units) *)
(* satisfies c > u exactly when c > j, so the classes decide every         *)
(* comparison the code makes.  float(x) of a boolean is 1 or 0.            *)
(*                                                                         *)
(* Shipped state of the source.  generate_transition_matrix holds a debug  *)
(* print and exit() (lines 204-205) ahead of the first row it would write, *)
(* passes an int where reachable_states reads s.index, and get_position is *)
(* defined nowhere in the file.  The model describes the kernel that lines *)
(* 206-214 build and the methods as their bodies read, with a state being  *)
(* the pair (index, time) that transition unpacks.                         *)
(***************************************************************************)
EXTENDS Integers, Sequences, FiniteSets, TLC

VARIABLES desc, is_slippery, T, state, lastaction, ret, episode

vars == <<desc, is_slippery, T, state, lastaction, ret, episode>>

---------------------------------------------------------------------------
(* Bounds of the model *)

\* one probability unit of a kernel row is 1/Units
Units == 10
\* seeds of the random source that fills the kernel
NumSeeds == 3
\* largest number of rows / columns of the grids of SpecPure
MaxDim == 3
\* longest weight vector handed to categorical_sample in SpecPure
MaxLen == 3
\* one unit of such a vector is 1/SampleDen; its weights are 0..SampleDen+1
SampleDen == 3

---------------------------------------------------------------------------
(* Program constants *)

LEFT == 0
DOWN == 1
RIGHT == 2
UP == 3

nA == 4
nT == 11
timestep == 1
\* L_p = 0.1 = L_p_num / L_p_den
L_p_num == 1
L_p_den == 10

MAPS_4x4 ==
    << <<"S", "F", "F", "F">>,
       <<"F", "H", "F", "H">>,
       <<"F", "F", "F", "H">>,
       <<"H", "F", "F", "G">> >>

\* a small lake handed in as desc
SmallDesc ==
    << <<"S", "F", "H">>,
       <<"F", "F", "G">> >>

nrow == Len(desc)
ncol == Len(desc[1])
nS == nrow * ncol

---------------------------------------------------------------------------
(* Python and numpy primitives *)

Max2(x, y) == IF x >= y THEN x ELSE y
Min2(x, y) == IF x <= y THEN x ELSE y

\* int(x / y) for y > 0: true division, then truncation toward zero
IntDiv(x, y) == IF x >= 0 THEN x \div y ELSE -((-x) \div y)

\* a % 4 of Python: the result has the sign of the divisor
PyMod4(a) == a % 4

\* numpy's index k into an axis of length n: -n..-1 count from the end,
\* anything else outside 0..n-1 is an IndexError (-1 here)
NpIndex(k, n) ==
    IF k >= 0 /\ k < n THEN k
    ELSE IF k < 0 /\ k >= -n THEN k + n
    ELSE -1

RECURSIVE SumTo(_, _)
\* f[0] + ... + f[k]
SumTo(f, k) == IF k < 0 THEN 0 ELSE f[k] + SumTo(f, k - 1)

\* np.sum of a vector indexed 0..n-1
NpSum(f, n) == SumTo(f, n - 1)

---------------------------------------------------------------------------
(* categorical_sample *)

\* the sample taken without the cumulative sum: (prob_n > u).argmax()
categorical_sample_nocumsum(prob_n, n, u) ==
    LET hits == {i \in 0..(n - 1) : prob_n[i] > u}
    IN  IF hits = {} THEN 0
        ELSE CHOOSE i \in hits : \A k \in hits : i <= k

\* (csprob_n > u).argmax(): the first index whose cumulative sum exceeds
\* the draw, and 0 when no entry is True
categorical_sample(prob_n, n, u) ==
    LET hits == {i \in 0..(n - 1) : SumTo(prob_n, i) > u}
    IN  IF hits = {} THEN 0
        ELSE CHOOSE i \in hits : \A k \in hits : i <= k

---------------------------------------------------------------------------
(* Geometry *)

\* inc with the two horizontal moves exchanged
inc_swapped(row, col, a) ==
    IF a = 0 THEN <<row, Min2(col + 1, ncol - 1)>>
    ELSE IF a = 1 THEN <<Min2(row + 1, nrow - 1), col>>
    ELSE IF a = 2 THEN <<row, Max2(col - 1, 0)>>
    ELSE IF a = 3 THEN <<Max2(row - 1, 0), col>>
    ELSE <<row, col>>

inc(row, col, a) ==
    IF a = 0 THEN <<row, Max2(col - 1, 0)>>
    ELSE IF a = 1 THEN <<Min2(row + 1, nrow - 1), col>>
    ELSE IF a = 2 THEN <<row, Min2(col + 1, ncol - 1)>>
    ELSE IF a = 3 THEN <<Max2(row - 1, 0), col>>
    ELSE <<row, col>>

to_s(row, col) == row * ncol + col

to_m(s) ==
    LET row == IntDiv(s, ncol)
    IN  <<row, s - row * ncol>>

\* self.desc[row, col], for indices inside the grid
Letter(row, col) == desc[row + 1][col + 1]

\* reachable_states slipping to the opposite action: (a+2)%4 for (a+1)%4
reachable_states_opposite(index, a) ==
    LET m == to_m(index)
        bs == IF is_slippery THEN {PyMod4(a - 1), a, PyMod4(a + 2)} ELSE {a}
        hit == {to_s(inc(m[1], m[2], b)[1], inc(m[1], m[2], b)[2]) : b \in bs}
    IN  [x \in 0..(nS - 1) |-> IF x \in hit THEN 1 ELSE 0]

\* reachable_states: a 0/1 vector over the positions
reachable_states(index, a) ==
    LET m == to_m(index)
        bs == IF is_slippery THEN {PyMod4(a - 1), a, PyMod4(a + 1)} ELSE {a}
        hit == {to_s(inc(m[1], m[2], b)[1], inc(m[1], m[2], b)[2]) : b \in bs}
    IN  [x \in 0..(nS - 1) |-> IF x \in hit THEN 1 ELSE 0]

\* is_terminal(s)
is_terminal(s) ==
    LET m == to_m(s.index)
    IN  Letter(m[1], m[2]) \in {"G", "H"}

---------------------------------------------------------------------------
(* dyna_gym.utils.distribution and the random source that feeds it *)

\* the random source: a stream of draws unfolding from a seed
NextRng(rng) == (rng * 7 + 3) % 101

\* a draw of the stream reduced to 0..k-1
Draw(rng, k) == rng % k

RECURSIVE Sticks(_, _, _)
\* break `left` units into n positive parts, one draw per part but the last
Sticks(n, left, rng) ==
    IF n = 1 THEN [w |-> <<left>>, rng |-> rng]
    ELSE LET k == 1 + Draw(rng, left - (n - 1))
             rest == Sticks(n - 1, left - k, NextRng(rng))
         IN  [w |-> <<k>> \o rest.w, rng |-> rest.rng]

\* random_tabular(size): a point of the probability simplex, every weight
\* positive (a uniform point of the simplex is interior with probability 1)
random_tabular(size, rng) == Sticks(size, Units, rng)

RECURSIVE Moves(_, _, _)
\* m times: move one unit from a weight that keeps at least one to another
Moves(w, m, rng) ==
    IF m = 0 THEN [w |-> w, rng |-> rng]
    ELSE LET n == Len(w)
             i == 1 + Draw(rng, n)
             j == 1 + Draw(NextRng(rng), n)
             v == IF i # j /\ w[i] >= 2
                  THEN [w EXCEPT ![i] = w[i] - 1, ![j] = w[j] + 1]
                  ELSE w
         IN  Moves(v, m - 1, NextRng(NextRng(rng)))

\* random_constrained(u, maxdist): a simplex point within total-variation
\* distance maxdist = dist_num / L_p_den of u; [1.0] stays [1.0]
random_constrained(u, dist_num, rng) ==
    IF Len(u) = 1 THEN [w |-> u, rng |-> rng]
    ELSE Moves(u, (dist_num * Units) \div L_p_den, rng)

---------------------------------------------------------------------------
(* generate_transition_matrix *)

\* the scatter reading wcopy[-1] without popping it
ScatterLast(w, rs) ==
    [x \in 0..(nS - 1) |-> IF rs[x] = 0 THEN 0 ELSE w[Len(w)]]

\* [0 if x == 0 else wcopy.pop() for x in rs]: pop() takes the last weight
\* left, so the k-th reachable position (k = 0, 1, ...) gets w[n - k]
Scatter(w, rs) ==
    [x \in 0..(nS - 1) |->
        IF rs[x] = 0 THEN 0
        ELSE w[Len(w) - Cardinality({y \in 0..(x - 1) : rs[y] # 0})]]

\* the weights of time t drawn afresh, as those of time 0 are
NextWeightsFresh(w, rng) == random_tabular(Len(w), rng)

\* line 212: the weights of time t from those of time t - 1
NextWeights(w, rng) == random_constrained(w, L_p_num * timestep, rng)

RECURSIVE FillTimes(_, _, _, _, _)
\* for t in range(1, nT): w = random_constrained(...); T[i,j,t,:] = scatter
FillTimes(rs, w, rng, t, rows) ==
    IF t >= nT THEN [rows |-> rows, rng |-> rng]
    ELSE LET nx == NextWeights(w, rng)
         IN  FillTimes(rs, nx.w, nx.rng, t + 1, rows @@ (t :> Scatter(nx.w, rs)))

\* the body of the two outer loops for one (i, j)
FillBlock(i, j, rng) ==
    LET rs == reachable_states(i, j)
        nrs == NpSum(rs, nS)
        w0 == random_tabular(nrs, rng)
    IN  FillTimes(rs, w0.w, w0.rng, 1, (0 :> Scatter(w0.w, rs)))

\* the state of the random source when the loops reach (i, j)
BlockRng(sd, i, j) == (sd * 31 + (i * nA + j) * 17) % 101

\* for i in range(nS): for j in range(nA): ...
generate_transition_matrix(sd) ==
    [i \in 0..(nS - 1) |->
        [j \in 0..(nA - 1) |-> FillBlock(i, j, BlockRng(sd, i, j)).rows]]

---------------------------------------------------------------------------
(* Kernel lookups *)

\* get_position(s): the position of a state given as its position
get_position(s) == s

\* assert t < self.nT, with the off-by-one slip t <= self.nT before it
TimeInRangeLoose(t) == t <= nT

TimeInRange(t) == t < nT

NoRow == <<>>

\* transition_probability_distribution(s, t, a): the three asserts, then
\* self.T[p, a, t]
transition_probability_distribution(s, t, a) ==
    LET p == get_position(s)
    IN  IF ~(p < nS) \/ ~TimeInRange(t) \/ ~(a < nA)
        THEN [err |-> "assert", row |-> NoRow]
        ELSE IF NpIndex(p, nS) = -1 \/ NpIndex(a, nA) = -1 \/ NpIndex(t, nT) = -1
        THEN [err |-> "index", row |-> NoRow]
        ELSE [err |-> "none",
              row |-> T[NpIndex(p, nS)][NpIndex(a, nA)][NpIndex(t, nT)]]

\* transition_probability(s_p, s, t, a): the four asserts, then
\* self.T[p, a, t, p_p]
transition_probability(s_p, s, t, a) ==
    LET p == get_position(s)
        p_p == get_position(s_p)
    IN  IF ~(p_p < nS) \/ ~(p < nS) \/ ~TimeInRange(t) \/ ~(a < nA)
        THEN [err |-> "assert", num |-> 0]
        ELSE IF NpIndex(p, nS) = -1 \/ NpIndex(a, nA) = -1
                \/ NpIndex(t, nT) = -1 \/ NpIndex(p_p, nS) = -1
        THEN [err |-> "index", num |-> 0]
        ELSE [err |-> "none",
              num |-> T[NpIndex(p, nS)][NpIndex(a, nA)][NpIndex(t, nT)][NpIndex(p_p, nS)]]

\* float(self.desc[row, col] == b'G') of position i
GoalFlag(i) ==
    LET m == to_m(i)
    IN  IF Letter(m[1], m[2]) = "G" THEN 1 ELSE 0

RECURSIVE RewardSum(_, _)
\* r += ri * d[i] for i in range(k + 1)
RewardSum(d, k) ==
    IF k < 0 THEN 0 ELSE GoalFlag(k) * d[k] + RewardSum(d, k - 1)

\* reward(s, t, a): the expected reward, in units
reward(s, t, a) ==
    LET d == transition_probability_distribution(s, t, a)
    IN  IF d.err # "none" THEN [err |-> d.err, num |-> 0]
        ELSE [err |-> "none", num |-> RewardSum(d.row, nS - 1)]

---------------------------------------------------------------------------
(* transition *)

\* the timeout test written t > self.nT - 1
TimeoutStrict(t) == t > nT - 1

\* if t >= self.nT - 1: done = True
Timeout(t) == t >= nT - 1

\* the time advanced whatever is_model_dynamic says
NextTimeAlways(t, is_model_dynamic) == t + 1

\* the time advanced by two steps
NextTimeSkip(t, is_model_dynamic) == IF is_model_dynamic THEN t + 2 ELSE t

\* if is_model_dynamic: t += 1
NextTime(t, is_model_dynamic) == IF is_model_dynamic THEN t + 1 ELSE t

\* transition(s, a, is_model_dynamic) with the draw u of np_random.rand();
\* s_in is the caller's state value once the call is over
transition(s, a, is_model_dynamic, u) ==
    LET p == s.index
        t == s.time
        d == transition_probability_distribution(p, t, a)
    IN  IF d.err # "none"
        THEN [err |-> d.err, s_in |-> s, s_p |-> s, r |-> 0, done |-> FALSE]
        ELSE LET p_p == categorical_sample(d.row, nS, u)
                 m == to_m(p_p)
                 newletter == Letter(m[1], m[2])
                 done == (newletter \in {"G", "H"}) \/ Timeout(t)
                 r == IF newletter = "G" THEN 1 ELSE 0
                 t2 == NextTime(t, is_model_dynamic)
             IN  [err |-> "none", s_in |-> s,
                  s_p |-> [index |-> p_p, time |-> t2], r |-> r, done |-> done]

---------------------------------------------------------------------------
(* The environment: construction, reset, _step *)

\* isd before the division by isd.sum(): 1 on the Start cells
StartFlags == [x \in 0..(nS - 1) |-> IF Letter(to_m(x)[1], to_m(x)[2]) = "S" THEN 1 ELSE 0]

\* the actions Down, Down, Down, Right, Right, Right
Script == <<DOWN, DOWN, DOWN, RIGHT, RIGHT, RIGHT>>

NoRet ==
    [op |-> "none", p |-> 0, t |-> 0, a |-> 0, q |-> 0, dyn |-> FALSE,
     err |-> "none", s_in |-> [index |-> 0, time |-> 0],
     s_p |-> [index |-> 0, time |-> 0], r |-> 0, done |-> FALSE,
     row |-> NoRow, n |-> 0, u |-> 0, num |-> 0, flag |-> FALSE]

\* what the caller has seen since the last reset: whether a step returned
\* done, and how many actions of Script it has played from the first step on
\* (-1 once it has left the script)
FreshEpisode == [done |-> FALSE, script |-> 0]

\* the grids and slipperiness the environment is built with
Configs == {<<MAPS_4x4, FALSE>>, <<SmallDesc, TRUE>>, <<SmallDesc, FALSE>>}

\* __init__: desc, is_slippery, T, then reset()
Init ==
    /\ \E c \in Configs : desc = c[1] /\ is_slippery = c[2]
    /\ \E sd \in 0..(NumSeeds - 1) : T = generate_transition_matrix(sd)
    /\ \E u \in 0..(NpSum(StartFlags, nS) - 1) :
          state = [index |-> categorical_sample(StartFlags, nS, u), time |-> 0]
    /\ lastaction = "None"
    /\ ret = NoRet
    /\ episode = FreshEpisode

\* reset()
Reset ==
    /\ \E u \in 0..(NpSum(StartFlags, nS) - 1) :
          state' = [index |-> categorical_sample(StartFlags, nS, u), time |-> 0]
    /\ lastaction' = "None"
    /\ ret' = [NoRet EXCEPT !.op = "reset"]
    /\ episode' = FreshEpisode
    /\ UNCHANGED <<desc, is_slippery, T>>

\* the caller's count of scripted actions after playing a from state st
ScriptAfter(k, st, a) ==
    IF k >= 0 /\ k < Len(Script) /\ k = st.time /\ a = Script[k + 1]
       /\ (k > 0 \/ st.index = 0)
    THEN k + 1 ELSE -1

\* _step(a): an error raised in transition leaves self.state and
\* self.lastaction as they were
Step(a) ==
    \E res \in {transition(state, a, TRUE, u) : u \in 0..(Units - 1)} :
        /\ ret' = [NoRet EXCEPT !.op = "step", !.p = state.index, !.t = state.time,
                      !.a = a, !.dyn = TRUE, !.err = res.err, !.s_in = res.s_in,
                      !.s_p = res.s_p, !.r = res.r, !.done = res.done]
        /\ state' = IF res.err = "none" THEN res.s_p ELSE state
        /\ lastaction' = IF res.err = "none" THEN a ELSE lastaction
        /\ episode' = IF res.err = "none"
                      THEN [done |-> episode.done \/ res.done,
                            script |-> ScriptAfter(episode.script, state, a)]
                      ELSE episode
        /\ UNCHANGED <<desc, is_slippery, T>>

---------------------------------------------------------------------------
(* Calls a planner makes on the constructed environment.  None of them     *)
(* writes a field of the environment, so each is taken from the state the  *)
(* constructor left (Fresh).                                               *)

Fresh == ret.op = "none"

\* values at and around the ends of an axis of length n
Around(n) == {-n - 1, -1, 0, n - 1, n}

\* transition(s, a, is_model_dynamic) on a state of the caller's
CallTransition(p, t, a, dyn) ==
    /\ Fresh
    /\ \E res \in {transition([index |-> p, time |-> t], a, dyn, u) : u \in 0..(Units - 1)} :
        /\ ret' = [NoRet EXCEPT !.op = "transition", !.p = p, !.t = t, !.a = a,
                      !.dyn = dyn, !.err = res.err, !.s_in = res.s_in,
                      !.s_p = res.s_p, !.r = res.r, !.done = res.done]
        /\ UNCHANGED <<desc, is_slippery, T, state, lastaction, episode>>

CallTransitionProbabilityDistribution(p, t, a) ==
    /\ Fresh
    /\ LET res == transition_probability_distribution(p, t, a)
       IN  /\ ret' = [NoRet EXCEPT !.op = "transition_probability_distribution",
                         !.p = p, !.t = t, !.a = a, !.err = res.err, !.row = res.row]
           /\ UNCHANGED <<desc, is_slippery, T, state, lastaction, episode>>

CallTransitionProbability(q, p, t, a) ==
    /\ Fresh
    /\ LET res == transition_probability(q, p, t, a)
       IN  /\ ret' = [NoRet EXCEPT !.op = "transition_probability", !.q = q,
                         !.p = p, !.t = t, !.a = a, !.err = res.err, !.num = res.num]
           /\ UNCHANGED <<desc, is_slippery, T, state, lastaction, episode>>

CallReward(p, t, a) ==
    /\ Fresh
    /\ LET res == reward(p, t, a)
       IN  /\ ret' = [NoRet EXCEPT !.op = "reward", !.p = p, !.t = t, !.a = a,
                         !.err = res.err, !.num = res.num]
           /\ UNCHANGED <<desc, is_slippery, T, state, lastaction, episode>>

CallIsTerminal(p, t) ==
    /\ Fresh
    /\ ret' = [NoRet EXCEPT !.op = "is_terminal", !.p = p, !.t = t,
                  !.flag = is_terminal([index |-> p, time |-> t])]
    /\ UNCHANGED <<desc, is_slippery, T, state, lastaction, episode>>

NextCalls ==
    \/ \E p \in 0..(nS - 1), t \in 0..(nT - 1), a \in 0..(nA - 1), dyn \in BOOLEAN :
          CallTransition(p, t, a, dyn)
    \/ \E p \in Around(nS), t \in Around(nT), a \in Around(nA) :
          CallTransition(p, t, a, TRUE)
    \/ \E p \in Around(nS), t \in Around(nT), a \in Around(nA) :
          CallTransitionProbabilityDistribution(p, t, a)
    \/ \E q \in Around(nS), p \in Around(nS), t \in Around(nT), a \in Around(nA) :
          CallTransitionProbability(q, p, t, a)
    \/ \E p \in Around(nS), t \in Around(nT), a \in Around(nA) :
          CallReward(p, t, a)
    \/ \E p \in 0..(nS - 1), t \in 0..nT : CallIsTerminal(p, t)

SpecCalls == Init /\ [][NextCalls]_vars

---------------------------------------------------------------------------
(* The functions that need no kernel, on inputs of their own *)

\* an all-frozen grid of r rows and c columns
Blank(r, c) == [i \in 1..r |-> [j \in 1..c |-> "F"]]

InitPure ==
    /\ \E r \in 1..MaxDim, c \in 1..MaxDim : desc = Blank(r, c)
    /\ is_slippery \in BOOLEAN
    /\ T = NoRow
    /\ state = [index |-> 0, time |-> 0]
    /\ lastaction = "None"
    /\ ret = NoRet
    /\ episode = FreshEpisode

CallReachableStates(p, a) ==
    /\ Fresh
    /\ ret' = [NoRet EXCEPT !.op = "reachable_states", !.p = p, !.a = a,
                  !.row = reachable_states(p, a)]
    /\ UNCHANGED <<desc, is_slippery, T, state, lastaction, episode>>

CallCategoricalSample(prob_n, n, u) ==
    /\ Fresh
    /\ ret' = [NoRet EXCEPT !.op = "categorical_sample", !.row = prob_n, !.n = n,
                  !.u = u, !.num = categorical_sample(prob_n, n, u)]
    /\ UNCHANGED <<desc, is_slippery, T, state, lastaction, episode>>

NextPure ==
    \/ \E p \in 0..(nS - 1), a \in 0..(nA - 1) : CallReachableStates(p, a)
    \/ \E n \in 1..MaxLen :
          \E prob_n \in [0..(n - 1) -> 0..(SampleDen + 1)], u \in 0..(SampleDen - 1) :
             CallCategoricalSample(prob_n, n, u)

SpecPure == InitPure /\ [][NextPure]_vars

Next ==
    \/ \E a \in 0..(nA - 1) : Step(a)
    \/ Reset

Spec == Init /\ [][Next]_vars

---------------------------------------------------------------------------
(* What the specification says, stated without the code's helpers *)

\* the label of the cell of position p
Cell(p) == desc[(p \div ncol) + 1][(p % ncol) + 1]

\* move: one step in direction a, a step off the edge being no step
Move(p, a) ==
    LET r == p \div ncol
        c == p % ncol
    IN  CASE a = LEFT  -> IF c > 0 THEN p - 1 ELSE p
          [] a = DOWN  -> IF r < nrow - 1 THEN p + ncol ELSE p
          [] a = RIGHT -> IF c < ncol - 1 THEN p + 1 ELSE p
          [] a = UP    -> IF r > 0 THEN p - ncol ELSE p

\* the intended action and the two perpendicular to it
Slips(a) == {(a + 3) % 4, a, (a + 1) % 4}

\* reachable(position, action, slippery)
Reachable(p, a, slippery) ==
    IF slippery THEN {Move(p, b) : b \in Slips(a)} ELSE {Move(p, a)}

\* the positions a vector over 0..nS-1 gives mass to
Support(row) == {x \in 0..(nS - 1) : row[x] # 0}

Abs(x) == IF x >= 0 THEN x ELSE -x

RECURSIVE L1(_, _, _)
\* |f[0] - g[0]| + ... + |f[k] - g[k]|
L1(f, g, k) == IF k < 0 THEN 0 ELSE Abs(f[k] - g[k]) + L1(f, g, k - 1)

Positions == 0..(nS - 1)
Actions == 0..(nA - 1)
Times == 0..(nT - 1)

---------------------------------------------------------------------------
(* The kernel *)

---------------------------------------------------------------------------
(* transition, is_terminal and the bounds checks *)

InRange(p, t, a) == p \in Positions /\ t \in Times /\ a \in Actions

OutOfRangeCall ==
    /\ ret.op \in {"transition", "transition_probability_distribution",
                   "transition_probability", "reward"}
    /\ \/ ret.p \notin Positions
       \/ ret.t \notin Times
       \/ ret.a \notin Actions
       \/ ret.op = "transition_probability" /\ ret.q \notin Positions

---------------------------------------------------------------------------
(* Episodes: reset and _step *)

\* the path the script is meant to follow from position 0
Path == <<0, 4, 8, 12, 13, 14, 15>>

\* the environment of the scenario, its k-th scripted step just taken
Scripted(k) ==
    /\ desc = MAPS_4x4 /\ ~is_slippery
    /\ ret.op = "step" /\ ret.err = "none"
    /\ episode.script = k

---------------------------------------------------------------------------
(* reachable_states and categorical_sample on inputs of their own *)

\* C8: reachable_states marks exactly move(p, a) when not slippery and
\* exactly the moves by (a-1) mod 4, a, (a+1) mod 4 when slippery, never
\* the opposite action's unless it coincides with one of them; the marked
\* positions lie in the grid, are 1 when not slippery and 1 to 3 when
\* slippery, fewer than 3 only where clamping leaves the position in place.
C8_ReachableIsMoveOrThreeSlips ==
    ret.op = "reachable_states" =>
        LET got == Support(ret.row)
        IN  /\ \A x \in Positions : ret.row[x] \in {0, 1}
            /\ got = Reachable(ret.p, ret.a, is_slippery)
            /\ got \subseteq Positions
            /\ ~is_slippery => got = {Move(ret.p, ret.a)} /\ Cardinality(got) = 1
            /\ is_slippery =>
                  /\ got = {Move(ret.p, (ret.a + 3) % 4), Move(ret.p, ret.a),
                            Move(ret.p, (ret.a + 1) % 4)}
                  /\ Cardinality(got) \in 1..3
                  /\ Move(ret.p, (ret.a + 2) % 4) \in got =>
                        \E b \in Slips(ret.a) : Move(ret.p, b) = Move(ret.p, (ret.a + 2) % 4)
                  /\ Cardinality(got) < 3 => \E b \in Slips(ret.a) : Move(ret.p, b) = ret.p

\* C8 witness: a slippery move along a wall, two of the three moves
\* distinct and the opposite cell left out.
C8_Witness ==
    /\ ret.op = "reachable_states" /\ is_slippery
    /\ Cardinality(Support(ret.row)) = 2
    /\ Move(ret.p, (ret.a + 2) % 4) \notin Support(ret.row)

\* the first index whose cumulative sum exceeds the draw u
FirstAbove(v, n, u, i) ==
    /\ i \in 0..(n - 1)
    /\ SumTo(v, i) > u
    /\ \A k \in 0..(i - 1) : SumTo(v, k) <= u

\* the draws, out of the SampleDen equal classes of [0,1), that give index i
DrawsGiving(v, n, i) == {u \in 0..(SampleDen - 1) : categorical_sample(v, n, u) = i}

\* the weights v[0..n-1] that are nonzero
NonZero(v, n) == {i \in 0..(n - 1) : v[i] # 0}

\* C9 as stated: for weights of positive total, normalized or not, and any
\* draw, the index returned has nonzero weight, each index gets a share of
\* the draws proportional to its weight, and a single nonzero entry is
\* returned at every draw.
C9_AnyWeights ==
    (ret.op = "categorical_sample" /\ NpSum(ret.row, ret.n) > 0) =>
        /\ ret.row[ret.num] > 0
        /\ \A i \in 0..(ret.n - 1) :
              Cardinality(DrawsGiving(ret.row, ret.n, i)) * NpSum(ret.row, ret.n)
                 = ret.row[i] * SampleDen
        /\ \A i \in 0..(ret.n - 1) : NonZero(ret.row, ret.n) = {i} => ret.num = i

\* C9 amended: for non-negative weights that sum to 1 and any draw, the
\* index returned is the first whose cumulative sum exceeds the draw; it
\* has nonzero weight, each index gets a share of the draws equal to its
\* weight, and a single nonzero entry is returned at every draw.
C9_NormalizedWeights ==
    (ret.op = "categorical_sample" /\ NpSum(ret.row, ret.n) = SampleDen) =>
        /\ FirstAbove(ret.row, ret.n, ret.u, ret.num)
        /\ ret.row[ret.num] > 0
        /\ \A i \in 0..(ret.n - 1) :
              Cardinality(DrawsGiving(ret.row, ret.n, i)) = ret.row[i]
        /\ \A i \in 0..(ret.n - 1) : NonZero(ret.row, ret.n) = {i} => ret.num = i

\* C9 witness: a normalized vector with a zero entry ahead of two nonzero
\* ones, sampled at its last index.
C9_Witness ==
    /\ ret.op = "categorical_sample" /\ NpSum(ret.row, ret.n) = SampleDen
    /\ ret.n = 3 /\ ret.row[0] = 0 /\ ret.row[1] > 0 /\ ret.num = 2

====
